---- MODULE Spec2Model ----
\* Model of the golox static resolver (golox/interpreter/resolver.go) and of
\* the error list it reports through (golox/loxerror/loxerror.go).
\*
\* The recursive walk over the AST is modelled with an explicit control stack
\* (ctl): a frame is a piece of the walk that is still to be done.  The program
\* being walked is drawn node by node from the closed set of statement and
\* expression variants, so that every program within the bounds is walked.
EXTENDS Integers, Sequences, FiniteSets, TLC

\* ---------------------------------------------------------------- bounds
MaxTokens == 3      \* identifier tokens in the program
MaxCtl == 5         \* pending frames of the walk (nesting of the program)
MaxParams == 2      \* parameters of a function
MaxArgs == 1        \* arguments of a call
MaxNodes == 5       \* statements and expressions of a program of fixed size

\* ---------------------------------------------------------------- tokens
BlankIdent == "_"
Names == {"a", "b"}
Lexemes == Names \cup {BlankIdent}

\* token.Token: the lexeme and the start position of the occurrence.
Token(l, p) == [Lexeme |-> l, Start |-> p]
NoTok == Token("", 0)

VARIABLES
    scopes,              \* resolver.scopes: stack of scopes, innermost last
    declDistancesByTok,  \* resolver.declDistancesByTok
    errs,                \* resolver.errs
    ctl,                 \* the pending part of the recursive walk, next frame last
    pos,                 \* source position of the next identifier token
    last,                \* the last node that used the resolver: [op, tok, params, pre],
                         \* pre being the resolver's fields when the node was reached
    topDecls,            \* tokens of declarations visited with an empty scope stack
    returned,            \* what Resolve returned
    twin,                \* the resolver's fields in a second walk of the same program
    nodes                \* statements and expressions of the program the walk has not
                         \* reached yet, or Unbounded for a program of any size

vars == <<scopes, declDistancesByTok, errs, ctl, pos, last, topDecls, returned, twin, nodes>>

\* ---------------------------------------------------------------- scope
NewInfo(tok) == [Defined |-> FALSE, Used |-> FALSE, Token |-> tok]

\* Declare without the blank identifier check
ScopeDeclareBlank(s, tok) ==
    [l \in DOMAIN s \cup {tok.Lexeme} |-> IF l = tok.Lexeme THEN NewInfo(tok) ELSE s[l]]

ScopeDeclare(s, tok) ==
    IF tok.Lexeme = BlankIdent
    THEN s
    ELSE [l \in DOMAIN s \cup {tok.Lexeme} |->
            IF l = tok.Lexeme THEN NewInfo(tok) ELSE s[l]]

ScopeDefine(s, tok) == [s EXCEPT ![tok.Lexeme].Defined = TRUE]

ScopeUse(s, tok) == [s EXCEPT ![tok.Lexeme].Used = TRUE]

IsDeclared(s, tok) == tok.Lexeme \in DOMAIN s

IsDefined(s, tok) == s[tok.Lexeme].Defined

\* UnusedIdents without the used check
UnusedIdentsAll(s) == {s[l].Token : l \in DOMAIN s}

UnusedIdents(s) == {s[l].Token : l \in {k \in DOMAIN s : ~s[k].Used}}

EmptyScope == [l \in {} |-> NewInfo(NoTok)]

\* ---------------------------------------------------------------- stack
\* stack.Index is 0-based: Index(st, 0) is the outermost scope.
Index(st, i) == st[i + 1]
Peek(st) == st[Len(st)]
Push(st, v) == Append(st, v)
Pop(st) == SubSeq(st, 1, Len(st) - 1)
SetIndex(st, i, v) == [st EXCEPT ![i + 1] = v]

\* ---------------------------------------------------------------- errors
MsgDeclared == " has already been declared"
MsgUndefined == " has not been defined"
MsgUnused == " has been declared but is never used"
MsgBlank == "blank identifier _ cannot be used in a non-assignment expression"

LoxError(msg, start) == [msg |-> msg, start |-> start]

\* LoxErrors.AddFromToken with a "%s ..." format applied to tok.Lexeme
AddFromToken(e, tok, text) == Append(e, LoxError(<<tok.Lexeme, text>>, tok.Start))

\* LoxErrors.AddFromToken with the fixed blank identifier message
AddBlank(e, tok) == Append(e, LoxError(<<MsgBlank>>, tok.Start))

\* an insertion that keeps the order of emission
InsertSortedAtEnd(s, e) == Append(s, e)

\* slices.SortFunc on at most 12 elements is an insertion sort by start
RECURSIVE InsertSorted(_, _)
InsertSorted(s, e) ==
    IF s = <<>> THEN <<e>>
    ELSE IF s[Len(s)].start > e.start
         THEN Append(InsertSorted(SubSeq(s, 1, Len(s) - 1), e), s[Len(s)])
         ELSE Append(s, e)

\* a sort that leaves equal-length lists as they are
SortByStartNone(s) == s

RECURSIVE SortByStart(_)
SortByStart(s) ==
    IF s = <<>> THEN <<>>
    ELSE InsertSorted(SortByStart(SubSeq(s, 1, Len(s) - 1)), s[Len(s)])

\* an Err that reports the first diagnostic only
ErrFirstOnly(e) == IF Len(e) = 0 THEN <<>> ELSE <<SortByStart(e)[1]>>

\* LoxErrors.Err: nil for an empty list, otherwise the sorted list joined
Err(e) == IF Len(e) = 0 THEN <<>> ELSE SortByStart(e)

\* ---------------------------------------------------------------- resolver
\* The resolver's fields as one value, so that the methods compose.
Resolver(sc, dist, e) == [scopes |-> sc, declDistancesByTok |-> dist, errs |-> e]

newResolver == Resolver(<<>>, [t \in {} |-> 0], <<>>)

Cur == Resolver(scopes, declDistancesByTok, errs)

\* a map that keeps only the entry written last
MapPutAlone(m, t, d) == [k \in {t} |-> d]

MapPut(m, t, d) == [k \in DOMAIN m \cup {t} |-> IF k = t THEN d ELSE m[k]]

\* a redeclaration that replaces the earlier binding
declareIdentOverwrites(r, tok) ==
    IF Len(r.scopes) = 0
    THEN r
    ELSE IF IsDeclared(Peek(r.scopes), tok)
         THEN Resolver(SetIndex(r.scopes, Len(r.scopes) - 1, ScopeDeclare(Peek(r.scopes), tok)),
                       r.declDistancesByTok,
                       AddFromToken(r.errs, tok, MsgDeclared))
         ELSE [r EXCEPT !.scopes =
                 SetIndex(r.scopes, Len(r.scopes) - 1, ScopeDeclare(Peek(r.scopes), tok))]

\* a resolver that also tracks declarations made at the top level
declareIdentTracksTopLevel(r, tok) ==
    IF Len(r.scopes) = 0
    THEN [r EXCEPT !.scopes = <<ScopeDeclare(EmptyScope, tok)>>]
    ELSE IF IsDeclared(Peek(r.scopes), tok)
         THEN [r EXCEPT !.errs = AddFromToken(r.errs, tok, MsgDeclared)]
         ELSE [r EXCEPT !.scopes =
                 SetIndex(r.scopes, Len(r.scopes) - 1, ScopeDeclare(Peek(r.scopes), tok))]

declareIdent(r, tok) ==
    IF Len(r.scopes) = 0
    THEN r
    ELSE IF IsDeclared(Peek(r.scopes), tok)
         THEN [r EXCEPT !.errs = AddFromToken(r.errs, tok, MsgDeclared)]
         ELSE [r EXCEPT !.scopes =
                 SetIndex(r.scopes, Len(r.scopes) - 1, ScopeDeclare(Peek(r.scopes), tok))]

RECURSIVE defineFrom(_, _, _)
defineFrom(r, tok, i) ==
    IF i < 0 THEN r
    ELSE IF IsDeclared(Index(r.scopes, i), tok)
         THEN [r EXCEPT !.scopes = SetIndex(r.scopes, i, ScopeDefine(Index(r.scopes, i), tok))]
         ELSE defineFrom(r, tok, i - 1)

\* a definition that starts its search at the scope enclosing the innermost
defineIdentSkipsInnermost(r, tok) == defineFrom(r, tok, Len(r.scopes) - 2)

defineIdent(r, tok) == defineFrom(r, tok, Len(r.scopes) - 1)

DistanceOffByOne(len, i) == len - i

DistanceFromOutermost(len, i) == i

Distance(len, i) == len - 1 - i

\* a lookup that goes on to the outer scopes after reporting an undefined binding
RECURSIVE resolveFromNoReturn(_, _, _, _)
resolveFromNoReturn(r, tok, op, i) ==
    IF i < 0 THEN r
    ELSE IF IsDeclared(Index(r.scopes, i), tok)
         THEN LET used == SetIndex(r.scopes, i, ScopeUse(Index(r.scopes, i), tok))
              IN IF ~IsDefined(Index(used, i), tok) /\ op = "read"
                 THEN resolveFromNoReturn(Resolver(used, r.declDistancesByTok,
                                                   AddFromToken(r.errs, tok, MsgUndefined)),
                                          tok, op, i - 1)
                 ELSE Resolver(used,
                               MapPut(r.declDistancesByTok, tok, Distance(Len(r.scopes), i)),
                               r.errs)
         ELSE resolveFromNoReturn(r, tok, op, i - 1)

\* a lookup that marks every binding of the lexeme used, shadowed ones too
RECURSIVE resolveFromUseAll(_, _, _, _)
resolveFromUseAll(r, tok, op, i) ==
    IF i < 0 THEN r
    ELSE IF IsDeclared(Index(r.scopes, i), tok)
         THEN LET used == [k \in DOMAIN r.scopes |->
                             IF IsDeclared(r.scopes[k], tok)
                             THEN ScopeUse(r.scopes[k], tok) ELSE r.scopes[k]]
              IN IF ~IsDefined(Index(used, i), tok) /\ op = "read"
                 THEN Resolver(used, r.declDistancesByTok,
                               AddFromToken(r.errs, tok, MsgUndefined))
                 ELSE Resolver(used,
                               MapPut(r.declDistancesByTok, tok, Distance(Len(r.scopes), i)),
                               r.errs)
         ELSE resolveFromUseAll(r, tok, op, i - 1)

\* a lookup that marks the binding used only when the reference is legal
RECURSIVE resolveFromUseIfDefined(_, _, _, _)
resolveFromUseIfDefined(r, tok, op, i) ==
    IF i < 0 THEN r
    ELSE IF IsDeclared(Index(r.scopes, i), tok)
         THEN LET used == SetIndex(r.scopes, i, ScopeUse(Index(r.scopes, i), tok))
              IN IF ~IsDefined(Index(r.scopes, i), tok) /\ op = "read"
                 THEN [r EXCEPT !.errs = AddFromToken(r.errs, tok, MsgUndefined)]
                 ELSE Resolver(used,
                               MapPut(r.declDistancesByTok, tok, Distance(Len(r.scopes), i)),
                               r.errs)
         ELSE resolveFromUseIfDefined(r, tok, op, i - 1)

\* a lookup that reports an unbound identifier instead of deferring it
RECURSIVE resolveFromStrict(_, _, _, _)
resolveFromStrict(r, tok, op, i) ==
    IF i < 0 THEN [r EXCEPT !.errs = AddFromToken(r.errs, tok, MsgUndefined)]
    ELSE IF IsDeclared(Index(r.scopes, i), tok)
         THEN LET used == SetIndex(r.scopes, i, ScopeUse(Index(r.scopes, i), tok))
              IN IF ~IsDefined(Index(used, i), tok) /\ op = "read"
                 THEN Resolver(used, r.declDistancesByTok,
                               AddFromToken(r.errs, tok, MsgUndefined))
                 ELSE Resolver(used,
                               MapPut(r.declDistancesByTok, tok, Distance(Len(r.scopes), i)),
                               r.errs)
         ELSE resolveFromStrict(r, tok, op, i - 1)

RECURSIVE resolveFrom(_, _, _, _)
resolveFrom(r, tok, op, i) ==
    IF i < 0 THEN r
    ELSE IF IsDeclared(Index(r.scopes, i), tok)
         THEN LET used == SetIndex(r.scopes, i, ScopeUse(Index(r.scopes, i), tok))
              IN IF ~IsDefined(Index(used, i), tok) /\ op = "read"
                 THEN Resolver(used, r.declDistancesByTok,
                               AddFromToken(r.errs, tok, MsgUndefined))
                 ELSE Resolver(used,
                               MapPut(r.declDistancesByTok, tok, Distance(Len(r.scopes), i)),
                               r.errs)
         ELSE resolveFrom(r, tok, op, i - 1)

resolveIdent(r, tok, op) == resolveFrom(r, tok, op, Len(r.scopes) - 1)

beginScope(r) == [r EXCEPT !.scopes = Push(r.scopes, EmptyScope)]

\* The orders in which ranging over a Go map can visit the set S
Orders(S) == {s \in [1..Cardinality(S) -> S] : \A i, j \in DOMAIN s : i # j => s[i] # s[j]}

RECURSIVE AddUnused(_, _, _)
AddUnused(e, toks, i) ==
    IF i > Len(toks) THEN e
    ELSE AddUnused(AddFromToken(e, toks[i], MsgUnused), toks, i + 1)

\* an end of scope that reports nothing
endScopeSilent(r, order) == [r EXCEPT !.scopes = Pop(r.scopes)]

\* an end of scope that reports and leaves the scope on the stack
endScopeNoPop(r, order) == [r EXCEPT !.errs = AddUnused(r.errs, order, 1)]

\* the function beginScope returns, for one iteration order of the popped scope
endScope(r, order) ==
    [r EXCEPT !.scopes = Pop(r.scopes), !.errs = AddUnused(r.errs, order, 1)]

RECURSIVE declareParams(_, _, _)
declareParams(r, params, i) ==
    IF i > Len(params) THEN r
    ELSE declareParams(defineIdent(declareIdent(r, params[i]), params[i]), params, i + 1)

\* resolveVariableExpr without the blank identifier case
variableExprNoBlank(r, tok) == resolveIdent(r, tok, "read")

\* resolveVariableExpr on the resolver's fields
variableExpr(r, tok) ==
    IF tok.Lexeme = BlankIdent
    THEN [r EXCEPT !.errs = AddBlank(r.errs, tok)]
    ELSE resolveIdent(r, tok, "read")

\* an assignment that does not define its target
assignmentExprNoDefine(r, tok) == resolveIdent(r, tok, "write")

\* resolveAssignmentExpr, after the right-hand side, on the resolver's fields
assignmentExpr(r, tok) == defineIdent(resolveIdent(r, tok, "write"), tok)

\* resolveFun up to the walk of the body
resolveFun(r, params) == declareParams(beginScope(r), params, 1)

\* a function declaration that leaves its name undefined while the body is walked
funDeclNoDefine(r, tok, params) == resolveFun(declareIdent(r, tok), params)

\* resolveFunDecl up to the walk of the body
funDecl(r, tok, params) == resolveFun(defineIdent(declareIdent(r, tok), tok), params)

\* ---------------------------------------------------------------- the walk
\* Frames: "program" and "body" are statement loops (of resolveProgram, and of
\* a block or function body whose scope is ended when the loop ends; the body
\* of a function declaration carries the declaration's name token), "stmt"
\* and "expr" are one statement or expression still to be walked, "endScope"
\* is the deferred end of a for statement's scope, "declare" and "assign" are
\* the parts of resolveVarDecl and resolveAssignmentExpr after the recursion.
Frame(k, tok) == [k |-> k, tok |-> tok]
F(k) == Frame(k, NoTok)

Top == ctl[Len(ctl)]
Rest == SubSeq(ctl, 1, Len(ctl) - 1)

Walking == ~returned.done
At(k) == Walking /\ Len(ctl) > 0 /\ Top.k = k

\* the walk is about to visit a statement: a pending one, or the next of a loop
AtStmt == At("stmt") \/ At("body") \/ At("program")
AtExpr == At("expr")

\* what is left once the node on top is taken: a loop stays, a node goes
Below == IF Top.k \in {"body", "program"} THEN ctl ELSE Rest

Unbounded == -1

\* the nodes a step reaches: the next statement of a loop, and the parts fs of
\* the node on top that are statements or expressions
Cost(fs) ==
    (IF Top.k \in {"body", "program"} THEN 1 ELSE 0)
    + Cardinality({i \in DOMAIN fs : fs[i].k \in {"stmt", "expr"}})

\* a program of fixed size has the n nodes the step reaches
Spend(n) ==
    IF nodes = Unbounded THEN UNCHANGED nodes ELSE nodes >= n /\ nodes' = nodes - n

\* Go on with the frames fs (the last of fs is done first)
Continue(fs) ==
    /\ Len(Below) + Len(fs) <= MaxCtl
    /\ ctl' = Below \o fs
    /\ Spend(Cost(fs))

\* the node on top is done
Return == ctl' = Rest /\ UNCHANGED nodes

Set(r) ==
    /\ scopes' = r.scopes
    /\ declDistancesByTok' = r.declDistancesByTok
    /\ errs' = r.errs

\* the second walk of the program applies the same resolver method to the same node
Again(r) == twin' = r

Visit(op, tok, params) == last' = [op |-> op, tok |-> tok, params |-> params, pre |-> Cur]

\* the tokens of consecutive identifiers with lexemes ls, starting at from
ParamToks(ls, from) == [i \in 1..Len(ls) |-> Token(ls[i], from + i - 1)]

ParamLists == UNION {[1..n -> Lexemes] : n \in 0..MaxParams}

NoResult == [done |-> FALSE, ok |-> FALSE, map |-> [t \in {} |-> 0], err |-> <<>>]

\* Resolve has made a resolver and is about to call resolveProgram
Start ==
    /\ scopes = newResolver.scopes
    /\ declDistancesByTok = newResolver.declDistancesByTok
    /\ errs = newResolver.errs
    /\ ctl = <<F("program")>>
    /\ pos = 1
    /\ last = [op |-> "start", tok |-> NoTok, params |-> <<>>, pre |-> newResolver]
    /\ topDecls = {}
    /\ returned = NoResult
    /\ twin = newResolver

Init == Start /\ nodes = Unbounded

Keep == UNCHANGED <<scopes, declDistancesByTok, errs, twin>>
NoDecl == UNCHANGED topDecls
NoTokens == UNCHANGED pos
Running == UNCHANGED returned

\* a node that only recurses into its parts, or does nothing
Structural(fs) ==
    /\ Continue(fs)
    /\ UNCHANGED <<scopes, declDistancesByTok, errs, pos, last, topDecls, returned, twin>>

TopLevel(tok) == topDecls' = IF Len(scopes) = 0 THEN topDecls \cup {tok} ELSE topDecls

\* ---- Resolve: resolveProgram has returned; report errs.Err() or the map
\* what Resolve returns once resolveProgram has returned with fields r: ok
\* tells a map from no map (nil), err is errs.Err() (<<>> for no error)
Result(r) ==
    IF Len(Err(r.errs)) # 0
    THEN [done |-> TRUE, ok |-> FALSE, map |-> [t \in {} |-> 0], err |-> Err(r.errs)]
    ELSE [done |-> TRUE, ok |-> TRUE, map |-> r.declDistancesByTok, err |-> <<>>]

Resolve ==
    /\ At("program")
    /\ ctl' = <<>>
    /\ returned' = Result(Cur)
    /\ UNCHANGED <<scopes, declDistancesByTok, errs, pos, last, topDecls, twin, nodes>>

\* ---- the deferred call of the function beginScope returned
exitScope ==
    /\ At("body") \/ At("endScope")
    /\ \E order \in Orders(UnusedIdents(Peek(scopes))) : Set(endScope(Cur, order))
    /\ \E order \in Orders(UnusedIdents(Peek(twin.scopes))) : twin' = endScope(twin, order)
    /\ Return
    /\ Visit("endScope", NoTok, <<>>)
    /\ NoDecl /\ NoTokens /\ Running

\* ---- statements
resolveVarDeclNoInit ==
    /\ AtStmt
    /\ pos <= MaxTokens
    /\ \E l \in Lexemes :
         LET tok == Token(l, pos) IN
         /\ Set(declareIdent(Cur, tok)) /\ Again(declareIdent(twin, tok))
         /\ Visit("VarDecl", tok, <<>>)
         /\ TopLevel(tok)
    /\ pos' = pos + 1
    /\ Continue(<<>>)
    /\ Running

\* a declaration that declares its name before walking the initialiser
resolveVarDeclInitDeclaresFirst ==
    /\ AtStmt
    /\ pos <= MaxTokens
    /\ \E l \in Lexemes :
         /\ Continue(<<Frame("declare", Token(l, pos)), F("expr")>>)
         /\ Set(declareIdent(Cur, Token(l, pos))) /\ Again(declareIdent(twin, Token(l, pos)))
         /\ Visit("VarDeclStart", Token(l, pos), <<>>)
    /\ pos' = pos + 1
    /\ NoDecl /\ Running

\* var name = initialiser: the initialiser is walked first
resolveVarDeclInit ==
    /\ AtStmt
    /\ pos <= MaxTokens
    /\ \E l \in Lexemes : Continue(<<Frame("declare", Token(l, pos)), F("expr")>>)
    /\ pos' = pos + 1
    /\ UNCHANGED last
    /\ Keep /\ NoDecl /\ Running

\* ... then the name is declared and defined
resolveVarDecl ==
    /\ At("declare")
    /\ Set(defineIdent(declareIdent(Cur, Top.tok), Top.tok)) /\ Again(defineIdent(declareIdent(twin, Top.tok), Top.tok))
    /\ Visit("VarDeclInit", Top.tok, <<>>)
    /\ TopLevel(Top.tok)
    /\ Return
    /\ NoTokens /\ Running

resolveFunDecl ==
    /\ AtStmt
    /\ \E l \in Lexemes, ps \in ParamLists :
         LET tok == Token(l, pos)
             params == ParamToks(ps, pos + 1)
         IN
         /\ pos + Len(ps) <= MaxTokens
         /\ Set(funDecl(Cur, tok, params)) /\ Again(funDecl(twin, tok, params))
         /\ Visit("FunDecl", tok, params)
         /\ TopLevel(tok)
         /\ pos' = pos + 1 + Len(ps)
         /\ Continue(<<Frame("body", tok)>>)
    /\ Running

resolveExprStmt == AtStmt /\ Structural(<<F("expr")>>)

resolvePrintStmt == AtStmt /\ Structural(<<F("expr")>>)

resolveBlockStmt ==
    /\ AtStmt
    /\ Set(beginScope(Cur)) /\ Again(beginScope(twin))
    /\ Continue(<<F("body")>>)
    /\ Visit("BlockStmt", NoTok, <<>>)
    /\ NoDecl /\ NoTokens /\ Running

resolveIfStmt ==
    /\ AtStmt
    /\ \E else \in BOOLEAN :
         Structural((IF else THEN <<F("stmt")>> ELSE <<>>) \o <<F("stmt"), F("expr")>>)

\* a while statement that is walked again each time its condition has been walked
resolveWhileStmtAgain ==
    /\ AtStmt
    /\ Len(Below) + 2 <= MaxCtl
    /\ ctl' = Below \o <<F("stmt"), F("expr")>>
    /\ UNCHANGED <<scopes, declDistancesByTok, errs, pos, last, topDecls, returned, twin, nodes>>

resolveWhileStmt == AtStmt /\ Structural(<<F("stmt"), F("expr")>>)

\* a for statement whose scope is ended before its body is walked
resolveForStmtEndsBeforeBody ==
    /\ AtStmt
    /\ Set(beginScope(Cur)) /\ Again(beginScope(twin))
    /\ \E init, cond, update \in BOOLEAN :
         Continue(<<F("stmt"), F("endScope")>>
                  \o (IF update THEN <<F("expr")>> ELSE <<>>)
                  \o (IF cond THEN <<F("expr")>> ELSE <<>>)
                  \o (IF init THEN <<F("stmt")>> ELSE <<>>))
    /\ Visit("ForStmt", NoTok, <<>>)
    /\ NoDecl /\ NoTokens /\ Running

resolveForStmt ==
    /\ AtStmt
    /\ Set(beginScope(Cur)) /\ Again(beginScope(twin))
    /\ \E init, cond, update \in BOOLEAN :
         Continue(<<F("endScope"), F("stmt")>>
                  \o (IF update THEN <<F("expr")>> ELSE <<>>)
                  \o (IF cond THEN <<F("expr")>> ELSE <<>>)
                  \o (IF init THEN <<F("stmt")>> ELSE <<>>))
    /\ Visit("ForStmt", NoTok, <<>>)
    /\ NoDecl /\ NoTokens /\ Running

resolveBreakStmt == AtStmt /\ Structural(<<>>)

resolveContinueStmt == AtStmt /\ Structural(<<>>)

resolveReturnStmt ==
    /\ AtStmt
    /\ \E value \in BOOLEAN : Structural(IF value THEN <<F("expr")>> ELSE <<>>)

\* ---- expressions
resolveFunExpr ==
    /\ AtExpr
    /\ \E ps \in ParamLists :
         /\ pos + Len(ps) - 1 <= MaxTokens
         /\ Set(resolveFun(Cur, ParamToks(ps, pos))) /\ Again(resolveFun(twin, ParamToks(ps, pos)))
         /\ Visit("FunExpr", NoTok, ParamToks(ps, pos))
         /\ pos' = pos + Len(ps)
    /\ Continue(<<F("body")>>)
    /\ NoDecl /\ Running

resolveGroupExpr == AtExpr /\ Structural(<<F("expr")>>)

resolveLiteralExpr == AtExpr /\ Structural(<<>>)

resolveVariableExpr ==
    /\ AtExpr
    /\ pos <= MaxTokens
    /\ \E l \in Lexemes :
         LET tok == Token(l, pos) IN
         /\ Set(variableExpr(Cur, tok)) /\ Again(variableExpr(twin, tok))
         /\ Visit("VariableExpr", tok, <<>>)
    /\ pos' = pos + 1
    /\ Continue(<<>>)
    /\ NoDecl /\ Running

resolveCallExpr ==
    /\ AtExpr
    /\ \E n \in 0..MaxArgs : Structural([i \in 1..(n + 1) |-> F("expr")])

resolveUnaryExpr == AtExpr /\ Structural(<<F("expr")>>)

resolveBinaryExpr == AtExpr /\ Structural(<<F("expr"), F("expr")>>)

resolveTernaryExpr == AtExpr /\ Structural(<<F("expr"), F("expr"), F("expr")>>)

\* left = right: the right-hand side is walked first
resolveAssignmentExprRight ==
    /\ AtExpr
    /\ pos <= MaxTokens
    /\ \E l \in Lexemes : Continue(<<Frame("assign", Token(l, pos)), F("expr")>>)
    /\ pos' = pos + 1
    /\ UNCHANGED last
    /\ Keep /\ NoDecl /\ Running

\* ... then the left-hand identifier is resolved as a write and defined
resolveAssignmentExpr ==
    /\ At("assign")
    /\ Set(assignmentExpr(Cur, Top.tok)) /\ Again(assignmentExpr(twin, Top.tok))
    /\ Visit("AssignmentExpr", Top.tok, <<>>)
    /\ Return
    /\ NoDecl /\ NoTokens /\ Running

Next ==
    \/ Resolve
    \/ exitScope
    \/ resolveVarDeclNoInit
    \/ resolveVarDeclInit
    \/ resolveVarDecl
    \/ resolveFunDecl
    \/ resolveExprStmt
    \/ resolvePrintStmt
    \/ resolveBlockStmt
    \/ resolveIfStmt
    \/ resolveWhileStmt
    \/ resolveForStmt
    \/ resolveBreakStmt
    \/ resolveContinueStmt
    \/ resolveReturnStmt
    \/ resolveFunExpr
    \/ resolveGroupExpr
    \/ resolveLiteralExpr
    \/ resolveVariableExpr
    \/ resolveCallExpr
    \/ resolveUnaryExpr
    \/ resolveBinaryExpr
    \/ resolveTernaryExpr
    \/ resolveAssignmentExprRight
    \/ resolveAssignmentExpr

Spec == Init /\ [][Next]_vars

\* The walk of a program of at most MaxNodes statements and expressions; the
\* walk is one sequential call, which goes on until it returns.
InitFinite == Start /\ nodes \in 0..MaxNodes

SpecFinite == InitFinite /\ [][Next]_vars /\ WF_vars(Next)

\* ================================================================ claims
\* The indexes (0-based, as stack.Index) of the scopes of sc that bind lexeme l
Binds(sc, l) == {i \in 0..(Len(sc) - 1) : l \in DOMAIN sc[i + 1]}
Innermost(sc, l) == CHOOSE i \in Binds(sc, l) : \A j \in Binds(sc, l) : j <= i
Bound(sc, l) == Binds(sc, l) # {}
Nearest(sc, l) == sc[Innermost(sc, l) + 1][l]

IsRead == last.op = "VariableExpr"
IsWrite == last.op = "AssignmentExpr"
IsDecl == last.op \in {"VarDecl", "VarDeclInit", "FunDecl"}
Lex == last.tok.Lexeme
Pre == last.pre

\* the diagnostics added since the last node was reached
NewErrs == SubSeq(errs, Len(Pre.errs) + 1, Len(errs))
ErrsAt(e, start) == {i \in DOMAIN e : e[i].start = start}
OnlyAdds == Len(errs) >= Len(Pre.errs) /\ SubSeq(errs, 1, Len(Pre.errs)) = Pre.errs

\* C1: a read (of a defined binding) or a write of a token whose lexeme some
\* scope binds records, for that token, the distance stack length - 1 - i,
\* i being the index of the innermost scope binding the lexeme.
C1_DistanceToInnermost ==
    ((IsRead \/ IsWrite) /\ Bound(Pre.scopes, Lex)
       /\ (IsRead => Nearest(Pre.scopes, Lex).Defined))
    => /\ last.tok \in DOMAIN declDistancesByTok
       /\ declDistancesByTok[last.tok]
            = Len(Pre.scopes) - 1 - Innermost(Pre.scopes, Lex)

\* a read recorded at distance 1 past an innermost scope that binds another name
C1_Witness ==
    /\ IsRead /\ Bound(Pre.scopes, Lex)
    /\ Len(Pre.scopes) = 2 /\ Innermost(Pre.scopes, Lex) = 0
    /\ DOMAIN Pre.scopes[2] # {}
    /\ last.tok \in DOMAIN declDistancesByTok
    /\ declDistancesByTok[last.tok] = 1

\* C2 as stated: a read or write of an identifier that no scope binds adds no
\* map entry, emits no diagnostic and changes no binding record.
C2_UnboundDoesNothing ==
    ((IsRead \/ IsWrite) /\ ~Bound(Pre.scopes, Lex)) => Cur = Pre

\* C2 amended: ... of an identifier other than the blank identifier ...
C2_UnboundNonBlankDoesNothing ==
    ((IsRead \/ IsWrite) /\ ~Bound(Pre.scopes, Lex) /\ ~(IsRead /\ Lex = BlankIdent))
    => Cur = Pre

\* a read of a name that only another, tracked, name shares the stack with
C2_Witness ==
    /\ IsRead /\ Lex # BlankIdent /\ ~Bound(Pre.scopes, Lex)
    /\ Len(Pre.scopes) > 0 /\ DOMAIN Pre.scopes[1] # {}
    /\ Cur = Pre

\* C3: a declaration visited with an empty scope stack is never tracked: no
\* scope ever holds a binding made by it and no diagnostic is ever positioned
\* at it, however many top-level declarations share its name.
C3_TopLevelUntracked ==
    /\ \A t \in topDecls :
         /\ \A i \in DOMAIN scopes : \A l \in DOMAIN scopes[i] : scopes[i][l].Token # t
         /\ ErrsAt(errs, t.Start) = {}
         /\ returned.done => ErrsAt(returned.err, t.Start) = {}
    /\ (IsDecl /\ Len(Pre.scopes) = 0) => (last.tok \in topDecls /\ OnlyAdds)
    /\ (IsDecl /\ Len(Pre.scopes) = 0 /\ last.op # "FunDecl") => Cur = Pre

\* the walk has ended after three top-level declarations of one name
C3_Witness ==
    /\ returned.done
    /\ \E t1, t2, t3 \in topDecls :
         /\ t1.Start < t2.Start /\ t2.Start < t3.Start
         /\ t1.Lexeme = t2.Lexeme /\ t2.Lexeme = t3.Lexeme /\ t1.Lexeme # BlankIdent

\* the scope a declaration of the last node was made in, before the node
Redeclares == IsDecl /\ Len(Pre.scopes) > 0 /\ Lex \in DOMAIN Peek(Pre.scopes)

\* parameter i of the last node repeats the name of an earlier parameter
Earlier(i) == {j \in 1..(i - 1) : last.params[j].Lexeme = last.params[i].Lexeme}
FirstOf(i) == CHOOSE j \in Earlier(i) : \A k \in Earlier(i) : j <= k
RepeatedParams == {i \in DOMAIN last.params :
                     last.params[i].Lexeme # BlankIdent /\ Earlier(i) # {}}

OneDeclaredErr(tok) ==
    /\ Cardinality(ErrsAt(errs, tok.Start)) = 1
    /\ \A i \in ErrsAt(errs, tok.Start) :
         /\ i > Len(Pre.errs)
         /\ errs[i] = LoxError(<<tok.Lexeme, MsgDeclared>>, tok.Start)

\* C4: declaring a non-blank name that the innermost scope already binds emits
\* exactly one "has already been declared" diagnostic at the declaring token,
\* inserts no binding, and the binding keeps the first declaration's token.
C4_Redeclaration ==
    /\ Redeclares =>
         /\ OneDeclaredErr(last.tok)
         /\ DOMAIN scopes[Len(Pre.scopes)] = DOMAIN Peek(Pre.scopes)
         /\ \A l \in DOMAIN Peek(Pre.scopes) :
              scopes[Len(Pre.scopes)][l].Token = Peek(Pre.scopes)[l].Token
    /\ \A i \in RepeatedParams :
         /\ OneDeclaredErr(last.params[i])
         /\ Peek(scopes)[last.params[i].Lexeme].Token = last.params[FirstOf(i)]

\* a variable redeclared in a block, the first declaration being kept
C4_Witness ==
    /\ Redeclares /\ last.op = "VarDecl"
    /\ Peek(scopes)[Lex].Token.Start < last.tok.Start
    /\ Len(errs) = Len(Pre.errs) + 1

\* C5: a read whose nearest binding is not defined emits exactly one "has
\* not been defined" diagnostic at the read token, records no distance for
\* it and marks the binding used.
C5_ReadUndefined ==
    (IsRead /\ Bound(Pre.scopes, Lex) /\ ~Nearest(Pre.scopes, Lex).Defined)
    => /\ errs = Append(Pre.errs, LoxError(<<Lex, MsgUndefined>>, last.tok.Start))
       /\ declDistancesByTok = Pre.declDistancesByTok
       /\ last.tok \notin DOMAIN declDistancesByTok
       /\ Nearest(scopes, Lex).Used
       /\ Nearest(scopes, Lex).Token = Nearest(Pre.scopes, Lex).Token

\* a first read, from a nested scope, of a variable declared without initialiser
C5_Witness ==
    /\ IsRead /\ Bound(Pre.scopes, Lex)
    /\ ~Nearest(Pre.scopes, Lex).Defined /\ ~Nearest(Pre.scopes, Lex).Used
    /\ Innermost(Pre.scopes, Lex) < Len(Pre.scopes) - 1
    /\ Len(errs) = 1

\* the bindings of sc live on in sc2, where their scope is still on the stack,
\* with flags that were set still set
Persist(sc, sc2) ==
    \A i \in DOMAIN sc : i <= Len(sc2) =>
       \A l \in DOMAIN sc[i] :
          /\ l \in DOMAIN sc2[i]
          /\ sc2[i][l].Token = sc[i][l].Token
          /\ sc[i][l].Defined => sc2[i][l].Defined
          /\ sc[i][l].Used => sc2[i][l].Used

\* C6: an assignment to a bound name marks the nearest binding used and
\* defined and records a distance for the assigned token, also when the
\* binding was undefined; the flags stay set while the binding lives, so a
\* used binding is not reported unused when its scope is popped and a read of
\* a defined binding emits no diagnostic.
C6_WriteDefines ==
    /\ (IsWrite /\ Bound(Pre.scopes, Lex)) =>
         /\ Nearest(scopes, Lex).Used
         /\ Nearest(scopes, Lex).Defined
         /\ Nearest(scopes, Lex).Token = Nearest(Pre.scopes, Lex).Token
         /\ last.tok \in DOMAIN declDistancesByTok
         /\ errs = Pre.errs
    /\ Persist(Pre.scopes, scopes)
    /\ (IsRead /\ Bound(Pre.scopes, Lex) /\ Nearest(Pre.scopes, Lex).Defined) =>
         errs = Pre.errs
    /\ last.op = "endScope" =>
         \A l \in DOMAIN Peek(Pre.scopes) :
            Peek(Pre.scopes)[l].Used =>
               ErrsAt(NewErrs, Peek(Pre.scopes)[l].Token.Start) = {}

\* an assignment, from a nested scope, to a variable that was neither defined
\* nor used
C6_Witness ==
    /\ IsWrite /\ Bound(Pre.scopes, Lex)
    /\ ~Nearest(Pre.scopes, Lex).Defined /\ ~Nearest(Pre.scopes, Lex).Used
    /\ Innermost(Pre.scopes, Lex) < Len(Pre.scopes) - 1
    /\ Nearest(scopes, Lex).Defined
    /\ declDistancesByTok[last.tok] = 1

UnusedOf(s) == {l \in DOMAIN s : ~s[l].Used}

\* the used flag of binding l of scope i was set by the last node
NewlyUsed(i, l) ==
    /\ scopes[i][l].Used
    /\ ~(i <= Len(Pre.scopes) /\ l \in DOMAIN Pre.scopes[i] /\ Pre.scopes[i][l].Used)

\* C7: popping a scope emits exactly one "has been declared but is never
\* used" diagnostic for each binding of the scope that is not used, at the
\* binding's declaring token, and nothing else; a binding is used exactly if
\* a read or a write has resolved to it.
C7_UnusedAtPop ==
    /\ last.op = "endScope" =>
         LET popped == Peek(Pre.scopes) IN
         /\ scopes = Pop(Pre.scopes)
         /\ OnlyAdds
         /\ Len(NewErrs) = Cardinality(UnusedOf(popped))
         /\ {NewErrs[i] : i \in DOMAIN NewErrs}
              = {LoxError(<<l, MsgUnused>>, popped[l].Token.Start) : l \in UnusedOf(popped)}
         /\ declDistancesByTok = Pre.declDistancesByTok
    /\ ((IsRead \/ IsWrite) /\ Bound(Pre.scopes, Lex)) => Nearest(scopes, Lex).Used
    /\ \A i \in DOMAIN scopes : \A l \in DOMAIN scopes[i] :
         NewlyUsed(i, l) =>
            /\ IsRead \/ IsWrite
            /\ Lex = l
            /\ Bound(Pre.scopes, l)
            /\ Innermost(Pre.scopes, l) = i - 1

\* a scope is popped with one binding that was used and one that was not
C7_Witness ==
    /\ last.op = "endScope"
    /\ Cardinality(UnusedOf(Peek(Pre.scopes))) = 1
    /\ Cardinality(DOMAIN Peek(Pre.scopes)) = 2
    /\ Len(NewErrs) = 1

BlankToks == {t \in {last.tok} \cup {last.params[i] : i \in DOMAIN last.params} :
                t.Lexeme = BlankIdent}

\* C8: the blank identifier is never a key of a scope, and declaring it (as
\* variable, function name or parameter) or assigning to it emits no
\* diagnostic and records no distance.
C8_BlankNeverBound ==
    /\ \A i \in DOMAIN scopes : BlankIdent \notin DOMAIN scopes[i]
    /\ \A t \in DOMAIN declDistancesByTok : t.Lexeme # BlankIdent
    /\ \A i \in DOMAIN errs : Len(errs[i].msg) = 2 => errs[i].msg[1] # BlankIdent
    /\ (IsDecl \/ IsWrite \/ last.op = "FunExpr") =>
         \A t \in BlankToks : ErrsAt(errs, t.Start) = {}
    /\ ((IsWrite \/ last.op \in {"VarDecl", "VarDeclInit"}) /\ Lex = BlankIdent) => Cur = Pre

\* a function named by the blank identifier with two blank parameters
C8_Witness ==
    /\ last.op = "FunDecl" /\ Lex = BlankIdent
    /\ Len(last.params) = 2
    /\ \A i \in DOMAIN last.params : last.params[i].Lexeme = BlankIdent
    /\ Len(Pre.scopes) > 0
    /\ errs = Pre.errs

\* C9: a read of the blank identifier emits exactly one "blank identifier"
\* diagnostic at that occurrence, whatever the scope stack holds, records no
\* distance and touches no binding.
C9_BlankRead ==
    (IsRead /\ Lex = BlankIdent)
    => /\ errs = Append(Pre.errs, LoxError(<<MsgBlank>>, last.tok.Start))
       /\ scopes = Pre.scopes
       /\ declDistancesByTok = Pre.declDistancesByTok

\* the blank identifier is read inside two scopes, the outer one with a binding
C9_Witness ==
    /\ IsRead /\ Lex = BlankIdent
    /\ Len(Pre.scopes) = 2 /\ DOMAIN Pre.scopes[1] # {}
    /\ Len(errs) = Len(Pre.errs) + 1

\* the names whose declaration is waiting for its initialiser to be walked
PendingDecls == {ctl[i].tok : i \in {j \in DOMAIN ctl : ctl[j].k = "declare"}}
AllBindings(sc) == UNION {{sc[i][l].Token : l \in DOMAIN sc[i]} : i \in DOMAIN sc}
InOwnInitialiser ==
    IsRead /\ Lex # BlankIdent
    /\ \E d \in PendingDecls : d.Lexeme = Lex /\ d.Start < last.tok.Start

\* C10: while the initialiser of a variable declaration is walked the name is
\* not declared: a reference to the name in the initialiser resolves to the
\* nearest binding already on the stack or, if there is none, gets no map
\* entry and no diagnostic.
C10_InitialiserFirst ==
    /\ \A d \in PendingDecls :
         /\ d \notin AllBindings(scopes)
         /\ ErrsAt(errs, d.Start) = {}
    /\ InOwnInitialiser =>
         IF Bound(Pre.scopes, Lex)
         THEN /\ Nearest(scopes, Lex).Token = Nearest(Pre.scopes, Lex).Token
              /\ Nearest(scopes, Lex).Token \notin PendingDecls
              /\ Nearest(scopes, Lex).Used
              /\ Nearest(Pre.scopes, Lex).Defined =>
                   /\ last.tok \in DOMAIN declDistancesByTok
                   /\ declDistancesByTok[last.tok]
                        = Len(Pre.scopes) - 1 - Innermost(Pre.scopes, Lex)
         ELSE Cur = Pre

\* in a block, var a = a with no a declared before: nothing is recorded
C10_Witness ==
    /\ InOwnInitialiser
    /\ Len(Pre.scopes) > 0
    /\ ~Bound(Pre.scopes, Lex)
    /\ Cur = Pre

\* the frames of ctl that stand for a scope of the stack, outermost first
IsScopeFrame(f) == f.k \in {"body", "endScope"}
\* the index (1-based) in the stack of the scope that frame j of ctl stands for
ScopeOf(j) == Cardinality({i \in 1..j : IsScopeFrame(ctl[i])})
\* the pending bodies of function declarations named by the lexeme of last.tok
OwnBodies == {j \in DOMAIN ctl : ctl[j].k = "body" /\ ctl[j].tok # NoTok /\ ctl[j].tok.Lexeme = Lex}
\* no parameter or local of the body scope k (1-based), or of a scope inside it, binds l
Unshadowed(sc, k, l) == \A i \in k..Len(sc) : l \notin DOMAIN sc[i]

\* C11: a function declaration of a non-blank name in a tracked scope leaves
\* that name bound and defined in the enclosing scope before its body is
\* walked; a read of the name inside the body, not shadowed by a parameter or
\* a local, adds no diagnostic, records the distance from the reading scope to
\* the scope enclosing the body (1 from the body scope itself) when the
\* function is declared in a tracked scope, and records nothing when it is
\* declared at top level.
C11_SelfReference ==
    /\ (last.op = "FunDecl" /\ Lex # BlankIdent /\ Len(Pre.scopes) > 0)
          => /\ Lex \in DOMAIN scopes[Len(Pre.scopes)]
             /\ scopes[Len(Pre.scopes)][Lex].Defined
    /\ (IsRead /\ Lex # BlankIdent)
          => \A j \in OwnBodies :
               Unshadowed(Pre.scopes, ScopeOf(j), Lex)
                 => /\ errs = Pre.errs
                    /\ ScopeOf(j) >= 2
                         => /\ last.tok \in DOMAIN declDistancesByTok
                            /\ declDistancesByTok[last.tok] = Len(Pre.scopes) - ScopeOf(j) + 1
                    /\ ScopeOf(j) = 1
                         => declDistancesByTok = Pre.declDistancesByTok

\* a function declared inside a block reads its own name in its body scope
C11_Witness ==
    /\ IsRead /\ Lex # BlankIdent
    /\ \E j \in OwnBodies :
         /\ ScopeOf(j) = 2 /\ Len(Pre.scopes) = 2
         /\ Unshadowed(Pre.scopes, 2, Lex)
         /\ last.tok \in DOMAIN declDistancesByTok
         /\ declDistancesByTok[last.tok] = 1

\* C17: the walk of a program of finitely many statements and expressions
\* reaches the end of the program's statements and Resolve returns.
C17_WalkTerminates == <>returned.done

\* Resolve has returned from a program of fixed size that had a scope to end
\* and an identifier to resolve
C17_Witness ==
    /\ returned.done
    /\ nodes # Unbounded
    /\ pos > 1
    /\ last.op = "endScope"

\* ---- what Resolve returns
Count(s, e) == Cardinality({i \in DOMAIN s : s[i] = e})
\* s and t hold the same diagnostics, each as often
SameDiagnostics(s, t) ==
    /\ Len(s) = Len(t)
    /\ \A i \in DOMAIN s : Count(s, s[i]) = Count(t, s[i])
Sorted(s) == \A i, j \in DOMAIN s : i < j => s[i].start <= s[j].start

\* C12: while diagnostics are collected the walk still has the program's
\* statement loop to go back to, and Resolve returns only from there; it
\* returns the map and no error exactly when no diagnostic was collected, and
\* otherwise no map and an error holding every collected diagnostic.
C12_MapOrAllDiagnostics ==
    /\ Walking => Len(ctl) > 0 /\ ctl[1].k = "program"
    /\ returned.done
          => /\ ctl = <<>>
             /\ (returned.ok /\ returned.err = <<>>) <=> (errs = <<>>)
             /\ errs = <<>> => returned.map = declDistancesByTok
             /\ errs # <<>> => ~returned.ok /\ SameDiagnostics(returned.err, errs)

\* Resolve returned after two nodes, one after a diagnostic of the other, added diagnostics
C12_Witness ==
    /\ returned.done
    /\ ~returned.ok
    /\ Len(Pre.errs) >= 1
    /\ Len(errs) > Len(Pre.errs)
    /\ Len(returned.err) = Len(errs)

\* C13: Err puts the diagnostics in non-decreasing order of start position,
\* whatever the order they were added in, and is no error for an empty list;
\* so is the error Resolve returns.
C13_SortedByStart ==
    /\ Sorted(Err(errs))
    /\ Len(Err(errs)) = Len(errs)
    /\ errs = <<>> => Err(errs) = <<>>
    /\ returned.done => Sorted(returned.err) /\ returned.err = Err(errs)

\* Resolve returned diagnostics that were not emitted in order of position
C13_Witness ==
    /\ returned.done
    /\ ~Sorted(errs)
    /\ Len(returned.err) >= 2
    /\ Sorted(returned.err)

\* Resolve has returned from a program that declares a at top level with the
\* first token and then, in one scope (as the block of var a; { var a; }),
\* declares a again without initialiser and does nothing else with the resolver
ShadowWalked ==
    /\ returned.done
    /\ topDecls = {Token("a", 1)}
    /\ pos = 3
    /\ last.op = "endScope"
    /\ Pre = Resolver(<<ScopeDeclare(EmptyScope, Token("a", 2))>>, [t \in {} |-> 0], <<>>)

\* C14 as stated: the program var x; { var x; } yields no diagnostics.
C14_ShadowNoDiagnostics == ShadowWalked => returned.ok /\ returned.err = <<>>

\* C14: the program var x; { var x; } yields no 'already declared' diagnostic;
\* its one diagnostic is 'declared but never used' for the inner x.
C14_ShadowOnlyUnused ==
    ShadowWalked
      => /\ ~returned.ok
         /\ returned.err = AddFromToken(<<>>, Token("a", 2), MsgUnused)

C14_Witness == ShadowWalked /\ ctl = <<>> /\ Len(errs) = 1

\* The last node read, from the innermost of a chain of nested scopes of
\* blocks (or function literals) that each hold one binding, the defined
\* binding of the outermost
ChainRead ==
    /\ IsRead /\ Lex # BlankIdent
    /\ Len(Pre.scopes) >= 1
    /\ \A i \in DOMAIN Pre.scopes : Cardinality(DOMAIN Pre.scopes[i]) = 1
    /\ Binds(Pre.scopes, Lex) = {0}
    /\ Pre.scopes[1][Lex].Defined
    /\ \A j \in DOMAIN ctl : IsScopeFrame(ctl[j]) => ctl[j] = F("body")

\* C15 as stated: in a chain of N nested blocks that each declare one
\* variable, the read in the innermost block of the outermost block's variable
\* records the distance N.
C15_DistanceIsDepth ==
    ChainRead
      => /\ last.tok \in DOMAIN declDistancesByTok
         /\ declDistancesByTok[last.tok] = Len(Pre.scopes)

\* C15: in a chain of N nested blocks that each declare one variable, the
\* read in the innermost block of the outermost block's variable records the
\* distance N - 1.
C15_DistanceIsDepthLessOne ==
    ChainRead
      => /\ last.tok \in DOMAIN declDistancesByTok
         /\ declDistancesByTok[last.tok] = Len(Pre.scopes) - 1

\* a chain of two
C15_Witness ==
    /\ ChainRead
    /\ Len(Pre.scopes) = 2
    /\ declDistancesByTok[last.tok] = 1

\* C16: two walks of the same program, whatever order each ranges over the
\* unused identifiers of a scope in, keep the same scope stack and the same
\* map, collect the same set of diagnostics, and return the same result.
C16_SameResultTwice ==
    /\ twin.scopes = scopes
    /\ twin.declDistancesByTok = declDistancesByTok
    /\ SameDiagnostics(twin.errs, errs)
    /\ returned.done => returned = Result(twin)

\* both walks have returned, having collected the diagnostics in different orders
C16_Witness ==
    /\ returned.done
    /\ twin.errs # errs

\* C18 as stated: a declaration of a name the innermost scope already binds
\* leaves that binding's defined flag, used flag and token as they were.
C18_EarlierBindingUntouched ==
    Redeclares => scopes[Len(Pre.scopes)][Lex] = Peek(Pre.scopes)[Lex]

\* the last node called defineIdent on its token
DefineCalled == last.op \in {"VarDeclInit", "FunDecl", "AssignmentExpr"}
\* the scope stack that call searched
AtDefine == IF last.op = "FunDecl" THEN SubSeq(scopes, 1, Len(Pre.scopes)) ELSE scopes

\* C19 as stated: whenever defineIdent is called, some scope on the stack
\* binds the lexeme.
C19_DefineFindsBinding == DefineCalled => Bound(AtDefine, Lex)

\* C19: when defineIdent is called for a non-blank name that was just declared
\* with a non-empty stack, or for a non-blank parameter, the innermost scope
\* binds the name and the binding is defined afterwards; when it is called
\* with no scope binding the name (a top-level declaration, the blank
\* identifier, an assignment to a name bound nowhere) it changes no scope.
C19_DefineAfterTrackedDeclare ==
    /\ (last.op \in {"VarDeclInit", "FunDecl"} /\ Lex # BlankIdent /\ Len(Pre.scopes) > 0)
          => /\ Lex \in DOMAIN Peek(AtDefine)
             /\ Peek(AtDefine)[Lex].Defined
    /\ last.op \in {"FunDecl", "FunExpr"}
          => \A i \in DOMAIN last.params :
               last.params[i].Lexeme # BlankIdent
                 => /\ last.params[i].Lexeme \in DOMAIN Peek(scopes)
                    /\ Peek(scopes)[last.params[i].Lexeme].Defined
    /\ (DefineCalled /\ ~Bound(AtDefine, Lex))
          => /\ Lex = BlankIdent \/ Len(Pre.scopes) = 0 \/ IsWrite
             /\ AtDefine = Pre.scopes

\* an assignment inside a scope to a name that no scope binds
C19_Witness ==
    /\ IsWrite /\ Lex # BlankIdent
    /\ Len(Pre.scopes) > 0
    /\ ~Bound(scopes, Lex)

ScopeFrames == {j \in DOMAIN ctl : IsScopeFrame(ctl[j])}

\* C20: the stack is as deep as there are function bodies, blocks and for
\* statements around the node being visited, so it is empty when the walk is
\* at a top-level statement and when Resolve has returned, and not empty when
\* a scope is about to be ended; a block or for statement pushes one empty
\* scope, a function one scope that holds its parameters, the end of a scope
\* pops the innermost scope, and no other node changes the depth.
C20_StackDiscipline ==
    /\ Len(scopes) = Cardinality(ScopeFrames)
    /\ At("program") => scopes = <<>>
    /\ returned.done => scopes = <<>>
    /\ (At("body") \/ At("endScope")) => Len(scopes) > 0
    /\ last.op \in {"BlockStmt", "ForStmt"} => scopes = Push(Pre.scopes, EmptyScope)
    /\ last.op \in {"FunDecl", "FunExpr"}
          => /\ Len(scopes) = Len(Pre.scopes) + 1
             /\ DOMAIN Peek(scopes) \subseteq {last.params[i].Lexeme : i \in DOMAIN last.params}
    /\ last.op = "endScope" => Len(Pre.scopes) > 0 /\ scopes = Pop(Pre.scopes)
    /\ last.op \notin {"BlockStmt", "ForStmt", "FunDecl", "FunExpr", "endScope"}
          => Len(scopes) = Len(Pre.scopes)

\* the inner of two nested scopes has been ended and the walk goes on in the outer
C20_Witness ==
    /\ Walking
    /\ last.op = "endScope"
    /\ Len(Pre.scopes) = 2
    /\ Len(scopes) = 1
    /\ Cardinality(ScopeFrames) = 1

\* the tokens of the last node's declarations: its name, if it declares, and its parameters
DeclToks == (IF IsDecl THEN {last.tok} ELSE {}) \cup {last.params[i] : i \in DOMAIN last.params}

\* C21: every entry the map held when the last node was reached is still
\* there with the same distance; the last node added at most one entry, for
\* its own token, which had none, and only as a read or a write, with a
\* distance d, 0 <= d < the stack depth at that moment; no declaring token
\* (of a live binding, of a top-level declaration, of the last node) and no
\* token at the position of a diagnostic is a key of the map.
C21_MapOnlyGrows ==
    /\ \A t \in DOMAIN Pre.declDistancesByTok :
         /\ t \in DOMAIN declDistancesByTok
         /\ declDistancesByTok[t] = Pre.declDistancesByTok[t]
    /\ \A t \in DOMAIN declDistancesByTok \ DOMAIN Pre.declDistancesByTok :
         /\ t = last.tok
         /\ IsRead \/ IsWrite
         /\ 0 <= declDistancesByTok[t]
         /\ declDistancesByTok[t] < Len(Pre.scopes)
    /\ (IsRead \/ IsWrite) => last.tok \notin DOMAIN Pre.declDistancesByTok
    /\ DeclToks \cap DOMAIN declDistancesByTok = {}
    /\ AllBindings(scopes) \cap DOMAIN declDistancesByTok = {}
    /\ topDecls \cap DOMAIN declDistancesByTok = {}
    /\ \A t \in DOMAIN declDistancesByTok : ErrsAt(errs, t.Start) = {}

\* a second entry is added to the map
C21_Witness ==
    /\ IsRead \/ IsWrite
    /\ Cardinality(DOMAIN Pre.declDistancesByTok) = 1
    /\ Cardinality(DOMAIN declDistancesByTok) = 2
    /\ last.tok \in DOMAIN declDistancesByTok

\* the pending ends of the scopes of for statements
ForFrames == {j \in DOMAIN ctl : ctl[j].k = "endScope"}
\* the scopes that were pushed inside the scope frame j of ctl stands for
ScopesAbove(j) == {i \in DOMAIN ctl : i > j /\ IsScopeFrame(ctl[i])}
\* the last node referred to a binding of the scope with index k (1-based)
RefersTo(k) ==
    /\ IsRead \/ IsWrite
    /\ k <= Len(Pre.scopes)
    /\ Bound(Pre.scopes, Lex) /\ Innermost(Pre.scopes, Lex) = k - 1
    /\ IsWrite \/ Pre.scopes[k][Lex].Defined

\* A for statement has pushed one empty scope; while its scope's end is
\* pending the bindings of that scope (those of the initialiser) keep their
\* tokens, and a reference to one of them marks it used and records the number
\* of scopes pushed since: 0 from initialiser, condition and update, 1 from
\* directly inside a body that is a block.
ForInv ==
    /\ last.op = "ForStmt"
          => /\ scopes = Push(Pre.scopes, EmptyScope)
             /\ \E j \in ForFrames : ScopeOf(j) = Len(scopes) /\ ScopesAbove(j) = {}
    /\ \A j \in ForFrames :
         LET k == ScopeOf(j) IN
         /\ k <= Len(scopes)
         /\ k <= Len(Pre.scopes)
               => \A l \in DOMAIN Pre.scopes[k] :
                     l \in DOMAIN scopes[k] /\ scopes[k][l].Token = Pre.scopes[k][l].Token
         /\ RefersTo(k)
               => /\ last.tok \in DOMAIN declDistancesByTok
                  /\ declDistancesByTok[last.tok] = Cardinality(ScopesAbove(j))
                  /\ ScopesAbove(j) = {} => declDistancesByTok[last.tok] = 0
                  /\ (j < Len(ctl) /\ ctl[j + 1] = F("body") /\ ScopesAbove(j) = {j + 1})
                        => declDistancesByTok[last.tok] = 1
                  /\ scopes[k][Lex].Used

\* the step of a for statement leaves the end of its scope pending beneath its
\* body, update, condition and initialiser
ForBegins ==
    (last' # last /\ last'.op = "ForStmt")
      => /\ Len(ctl') >= Len(Below) + 2
         /\ ctl'[Len(Below) + 1].k = "endScope"
         /\ ctl'[Len(Below) + 2].k = "stmt"
         /\ \A i \in (Len(Below) + 3)..Len(ctl') : ctl'[i].k \in {"stmt", "expr"}

\* when the body of a for statement has been walked its scope is the innermost;
\* the step pops it, so that no binding of it is on the stack any more, and
\* reports each of its bindings that was never referred to as unused
ForEnds ==
    At("endScope")
      => LET popped == Peek(scopes) IN
         /\ Len(scopes) = ScopeOf(Len(ctl))
         /\ scopes' = Pop(scopes)
         /\ \A l \in DOMAIN popped :
              /\ popped[l].Token \notin AllBindings(scopes')
              /\ Cardinality({i \in DOMAIN errs' :
                                i > Len(errs)
                                /\ errs'[i] = LoxError(<<l, MsgUnused>>, popped[l].Token.Start)})
                   = IF popped[l].Used THEN 0 ELSE 1

\* C22: a for statement pushes exactly one scope, which is on the stack while
\* initialiser, condition, update and body are walked and is popped after the
\* body; a variable of the initialiser is one binding of that scope, resolved
\* at distance 0 from condition and update and 1 from directly inside a block
\* body, gone from the stack after the loop, and reported unused at the loop's
\* end exactly if nothing referred to it.
C22_ForScope == [][ForInv /\ ForInv' /\ ForBegins /\ ForEnds]_vars

\* a read, directly inside the block that is the body of a for statement, of
\* the variable the for statement's initialiser declared
C22_Witness ==
    /\ IsRead
    /\ \E j \in ForFrames :
         /\ j < Len(ctl) /\ ctl[j + 1] = F("body") /\ ScopesAbove(j) = {j + 1}
         /\ RefersTo(ScopeOf(j))
         /\ declDistancesByTok[last.tok] = 1

\* an assignment in the condition or update of a for statement to the variable
\* of its initialiser, the body still to be walked
C22_InClause ==
    /\ IsWrite
    /\ \E j \in ForFrames :
         /\ j < Len(ctl) /\ ctl[j + 1].k = "stmt" /\ ScopesAbove(j) = {}
         /\ RefersTo(ScopeOf(j))
         /\ declDistancesByTok[last.tok] = 0

\* the last node referred to a name that several scopes bind
Shadowing == (IsRead \/ IsWrite) /\ Cardinality(Binds(Pre.scopes, Lex)) >= 2

\* C23: a read or write of a name several scopes bind marks used (and a write
\* marks defined) the binding of the innermost of them and leaves every other
\* binding on the stack, the outer ones of the same name among them, as it
\* was; a binding that is unused when its scope is popped is reported unused.
C23_OnlyInnermost ==
    /\ Shadowing
          => /\ Len(scopes) = Len(Pre.scopes)
             /\ Nearest(scopes, Lex).Used
             /\ IsWrite => Nearest(scopes, Lex).Defined
             /\ \A i \in DOMAIN scopes : \A l \in DOMAIN Pre.scopes[i] :
                  (l # Lex \/ i # Innermost(Pre.scopes, Lex) + 1)
                    => l \in DOMAIN scopes[i] /\ scopes[i][l] = Pre.scopes[i][l]
    /\ last.op = "endScope"
          => \A l \in UnusedOf(Peek(Pre.scopes)) :
               \E i \in DOMAIN NewErrs :
                  NewErrs[i] = LoxError(<<l, MsgUnused>>, Peek(Pre.scopes)[l].Token.Start)

\* a scope is popped whose binding is reported unused although a later token
\* of the same name was resolved, to the binding of an inner scope
C23_Witness ==
    /\ last.op = "endScope"
    /\ \E l \in UnusedOf(Peek(Pre.scopes)) :
         /\ \E i \in DOMAIN NewErrs :
              NewErrs[i] = LoxError(<<l, MsgUnused>>, Peek(Pre.scopes)[l].Token.Start)
         /\ \E t \in DOMAIN declDistancesByTok :
              /\ t.Lexeme = l
              /\ t.Start > Peek(Pre.scopes)[l].Token.Start
              /\ declDistancesByTok[t] = 0

\* what a diagnostic says of its token
Kind(e) == e.msg[Len(e.msg)]
StrictlySorted(s) == \A i, j \in DOMAIN s : i < j => s[i].start < s[j].start
NewKinds == {Kind(NewErrs[i]) : i \in DOMAIN NewErrs}
NewStarts == {NewErrs[i].start : i \in DOMAIN NewErrs}

\* C24: no two collected diagnostics have the same start position, so that
\* Err, and what Resolve returns, is in strictly increasing order of position;
\* a read adds at most one diagnostic, 'not defined' or 'blank identifier', at
\* its token, an assignment none, a declaration only 'already declared' at
\* tokens it declares, and the end of a scope only 'never used' at the tokens
\* of the popped bindings.
C24_OneDiagnosticPerToken ==
    /\ \A i, j \in DOMAIN errs : i # j => errs[i].start # errs[j].start
    /\ StrictlySorted(Err(errs))
    /\ returned.done => StrictlySorted(returned.err) /\ Len(returned.err) = Len(errs)
    /\ OnlyAdds
    /\ IsRead => /\ Len(NewErrs) <= 1
                 /\ NewStarts \subseteq {last.tok.Start}
                 /\ NewKinds \subseteq {MsgUndefined, MsgBlank}
    /\ IsWrite => NewErrs = <<>>
    /\ (IsDecl \/ last.op = "FunExpr")
          => /\ NewStarts \subseteq {t.Start : t \in DeclToks}
             /\ NewKinds \subseteq {MsgDeclared}
    /\ last.op = "endScope"
          => /\ NewStarts \subseteq {t.Start : t \in AllBindings(<<Peek(Pre.scopes)>>)}
             /\ NewKinds \subseteq {MsgUnused}
    /\ last.op \in {"start", "BlockStmt", "ForStmt"} => NewErrs = <<>>

\* Resolve has returned three diagnostics, of three kinds, for three tokens
C24_Witness ==
    /\ returned.done
    /\ Len(returned.err) = 3
    /\ Cardinality({Kind(errs[i]) : i \in DOMAIN errs}) = 3

====
